---- MODULE Spec2Model ----
(***************************************************************************)
(* Website Status Checker backend (src/app.py).                            *)
(*                                                                         *)
(* Strings are sequences of one-character strings, so that prefixes,       *)
(* stripping and truncation are computed and not assumed.  The emoji that  *)
(* opens every display message is written as an ASCII tag in brackets      *)
(* ("[check] Site is Live" for U+2705 "Site is Live"): TLA+ strings are    *)
(* ASCII; a character TLA+ cannot write is named by its code point         *)
(* ("U+000B").  A Python value that is a str or something else is a record *)
(* [t, s]; a status that is an int or a str is a record [num, code, name]; *)
(* a response_time that is a float or None is a record [null, secs].       *)
(***************************************************************************)
EXTENDS Integers, Sequences, FiniteSets, TLC

VARIABLES pc, req, net, resp, sent, idx, results, arg, ret, ret2

vars == <<pc, req, net, resp, sent, idx, results, arg, ret, ret2>>

---------------------------------------------------------------------------
(* Bounds of the model *)

\* longest tail appended to a scheme-like prefix in the format_url inputs
MaxTail == 2
\* largest status code given to get_status_message
MaxCode == 1000
\* longest explicitly enumerated bulk list
MaxList == 3
\* longest cyclic script of request outcomes
MaxPat == 2
\* longest enumerated sequence of statuses given to the summary
MaxRes == 3

(* Program constants *)

\* len(domains) > 100
MAX_DOMAINS == 100
\* str(e)[:50]
ERR_CHARS == 50

---------------------------------------------------------------------------
(* Python values and strings *)

Str(s) == [t |-> "str", s |-> s]
JsonNumber == [t |-> "int", s |-> <<>>]
JsonNull == [t |-> "null", s |-> <<>>]

\* the characters str.strip() removes: those str.isspace() holds of
Whitespace ==
    {"\t", "\n", "U+000B", "\f", "\r", "U+001C", "U+001D", "U+001E", "U+001F",
     " ", "U+0085", "U+00A0", "U+1680", "U+2000", "U+2001", "U+2002", "U+2003",
     "U+2004", "U+2005", "U+2006", "U+2007", "U+2008", "U+2009", "U+200A",
     "U+2028", "U+2029", "U+202F", "U+205F", "U+3000"}

HTTP == <<"h", "t", "t", "p", ":", "/", "/">>
HTTPS == <<"h", "t", "t", "p", "s", ":", "/", "/">>

\* str.startswith(prefix)
startswith(s, p) == Len(s) >= Len(p) /\ SubSeq(s, 1, Len(p)) = p

RECURSIVE lstrip(_)
lstrip(s) == IF s # <<>> /\ Head(s) \in Whitespace THEN lstrip(Tail(s)) ELSE s

RECURSIVE rstrip(_)
rstrip(s) ==
    IF s # <<>> /\ s[Len(s)] \in Whitespace
    THEN rstrip(SubSeq(s, 1, Len(s) - 1))
    ELSE s

\* str.strip()
strip(s) == rstrip(lstrip(s))

\* s[:n]
Prefix(s, n) == SubSeq(s, 1, IF Len(s) < n THEN Len(s) ELSE n)

\* all sequences over S of length 0..n
RECURSIVE SeqsUpTo(_, _)
SeqsUpTo(S, n) ==
    IF n = 0 THEN {<<>>}
    ELSE LET shorter == SeqsUpTo(S, n - 1)
         IN  shorter \cup {Append(q, x) : q \in {r \in shorter : Len(r) = n - 1}, x \in S}

---------------------------------------------------------------------------
(* format_url *)

\* the mutant: only the https scheme is recognised
format_url_https_only(domain) ==
    IF ~startswith(domain, HTTPS) THEN HTTPS \o domain ELSE domain

format_url(domain) ==
    IF ~(startswith(domain, HTTP) \/ startswith(domain, HTTPS))
    THEN HTTPS \o domain
    ELSE domain

---------------------------------------------------------------------------
(* get_status_message *)

messages ==
    (200 :> "[check] Site is Live") @@
    (201 :> "[check] Created") @@
    (204 :> "[check] No Content") @@
    (301 :> "[arrow] Moved Permanently") @@
    (302 :> "[arrow] Found (Redirect)") @@
    (304 :> "[clipboard] Not Modified") @@
    (400 :> "[cross] Bad Request") @@
    (401 :> "[lock] Unauthorized") @@
    (403 :> "[lock] Access Forbidden") @@
    (404 :> "[cross] 404 Not Found") @@
    (405 :> "[cross] Method Not Allowed") @@
    (408 :> "[timer] Request Timeout") @@
    (429 :> "[warning] Too Many Requests") @@
    (500 :> "[warning] Internal Server Error") @@
    (502 :> "[warning] Bad Gateway") @@
    (503 :> "[warning] Service Unavailable") @@
    (504 :> "[warning] Gateway Timeout")

range_message(status_code) ==
    IF 200 <= status_code /\ status_code < 300 THEN "[check] Success"
    ELSE IF 300 <= status_code /\ status_code < 400 THEN "[arrow] Redirect"
    ELSE IF 400 <= status_code /\ status_code < 500 THEN "[cross] Client Error"
    ELSE IF 500 <= status_code /\ status_code < 600 THEN "[warning] Server Error"
    ELSE "[question] Unknown Status"

\* the mutant: the range rule alone, the table never consulted
get_status_message_range_only(status_code) == range_message(status_code)

get_status_message(status_code) ==
    IF status_code \in DOMAIN messages
    THEN messages[status_code]
    ELSE range_message(status_code)

---------------------------------------------------------------------------
(* What requests.get can do: return a response, or raise.  An exception is  *)
(* the classes it is an instance of, most derived first, and the text       *)
(* str(e) gives.                                                            *)

Response(code, elapsed) ==
    [kind |-> "response", code |-> code, elapsed |-> elapsed,
     classes |-> <<>>, desc |-> <<>>]

\* isinstance(e, cls), as an except clause tests it
IsInstance(e, cls) == \E i \in DOMAIN e.classes : e.classes[i] = cls

Raise(classes, desc) ==
    [kind |-> "raise", code |-> 0, elapsed |-> 0,
     classes |-> classes, desc |-> desc]

ShortDesc == <<"b", "a", "d">>
LongDesc == [i \in 1..(ERR_CHARS + 3) |-> IF i <= ERR_CHARS THEN "x" ELSE "y"]

ReadTimeout ==
    Raise(<<"ReadTimeout", "Timeout", "RequestException", "Exception">>, ShortDesc)
ConnectTimeout ==
    Raise(<<"ConnectTimeout", "ConnectionError", "Timeout", "RequestException",
           "Exception">>, ShortDesc)
ConnectionError ==
    Raise(<<"ConnectionError", "RequestException", "Exception">>, ShortDesc)
SSLError ==
    Raise(<<"SSLError", "ConnectionError", "RequestException", "Exception">>, LongDesc)
TooManyRedirects ==
    Raise(<<"TooManyRedirects", "RequestException", "Exception">>, LongDesc)
InvalidURL ==
    Raise(<<"InvalidURL", "RequestException", "ValueError", "Exception">>, ShortDesc)
\* type(url).__name__ of a value that is no str
TypeName(url) ==
    IF url.t = "int" THEN <<"i", "n", "t">>
    ELSE IF url.t = "list" THEN <<"l", "i", "s", "t">>
    ELSE <<"N", "o", "n", "e", "T", "y", "p", "e">>

\* what domain.startswith raises in format_url on a value that is no str:
\* '<type>' object has no attribute 'startswith'
AttributeError(url) ==
    Raise(<<"AttributeError", "Exception">>,
          <<"'">> \o TypeName(url) \o
          <<"'", " ", "o", "b", "j", "e", "c", "t", " ", "h", "a", "s", " ",
            "n", "o", " ", "a", "t", "t", "r", "i", "b", "u", "t", "e", " ",
            "'", "s", "t", "a", "r", "t", "s", "w", "i", "t", "h", "'">>)

\* status codes a server can answer with, one or two in every class of the summary
CodeSamples == {100, 200, 301, 404, 500, 999}

\* every outcome of one call of requests.get
ProbeOutcomes ==
    {Response(c, 1) : c \in CodeSamples \cup {199, 204, 299, 408, 600}}
        \cup {Response(200, 0)}
        \cup {ReadTimeout, ConnectTimeout, ConnectionError, SSLError,
              TooManyRedirects, InvalidURL}

---------------------------------------------------------------------------
(* check_website_status *)

Num(code) == [num |-> TRUE, code |-> code, name |-> ""]
Sentinel(name) == [num |-> FALSE, code |-> 0, name |-> name]

None == [null |-> TRUE, secs |-> 0]
Seconds(x) == [null |-> FALSE, secs |-> x]

Message(text, detail) == [text |-> text, detail |-> detail]

CheckResult(domain, status, message, timestamp, response_time) ==
    [domain |-> domain, status |-> status, message |-> message,
     timestamp |-> timestamp, response_time |-> response_time]

NoResult == CheckResult(JsonNull, Sentinel(""), Message("", <<>>), 0, None)

Returned(r) == [raised |-> FALSE, result |-> r]
Propagated == [raised |-> TRUE, result |-> NoResult]

\* the mutant: no "except Exception" clause
except_clauses_no_catch_all(url, e, now) ==
    IF IsInstance(e, "Timeout")
    THEN Returned(CheckResult(url, Sentinel("TIMEOUT"),
                              Message("[timer] Request Timeout", <<>>), now, None))
    ELSE IF IsInstance(e, "ConnectionError")
    THEN Returned(CheckResult(url, Sentinel("CONNECTION_ERROR"),
                              Message("[cross] Connection Failed", <<>>), now, None))
    ELSE Propagated

\* the mutant: the timeout clause reports the configured timeout as the time
except_clauses_timed(url, e, now) ==
    IF IsInstance(e, "Timeout")
    THEN Returned(CheckResult(url, Sentinel("TIMEOUT"),
                              Message("[timer] Request Timeout", <<>>), now,
                              Seconds(10)))
    ELSE IF IsInstance(e, "ConnectionError")
    THEN Returned(CheckResult(url, Sentinel("CONNECTION_ERROR"),
                              Message("[cross] Connection Failed", <<>>), now, None))
    ELSE IF IsInstance(e, "Exception")
    THEN Returned(CheckResult(url, Sentinel("ERROR"),
                              Message("[cross] Error: ", Prefix(e.desc, ERR_CHARS)),
                              now, None))
    ELSE Propagated

\* the except clauses, tried in order
except_clauses(url, e, now) ==
    IF IsInstance(e, "Timeout")
    THEN Returned(CheckResult(url, Sentinel("TIMEOUT"),
                              Message("[timer] Request Timeout", <<>>), now, None))
    ELSE IF IsInstance(e, "ConnectionError")
    THEN Returned(CheckResult(url, Sentinel("CONNECTION_ERROR"),
                              Message("[cross] Connection Failed", <<>>), now, None))
    ELSE IF IsInstance(e, "Exception")
    THEN Returned(CheckResult(url, Sentinel("ERROR"),
                              Message("[cross] Error: ", Prefix(e.desc, ERR_CHARS)),
                              now, None))
    ELSE Propagated

\* the request the call sends, if it gets as far as sending one
RequestsSent(url) == IF url.t = "str" THEN <<format_url(url.s)>> ELSE <<>>

\* the body of the try block on a response
on_response(url, outcome, now) ==
    Returned(CheckResult(url, Num(outcome.code),
                         Message(get_status_message(outcome.code), <<>>),
                         now, Seconds(outcome.elapsed)))

\* the mutant: the record echoes the URL that was requested
check_website_status_echo_formatted(url, outcome, now) ==
    IF url.t # "str" THEN except_clauses(url, AttributeError(url), now)
    ELSE IF outcome.kind = "response"
         THEN on_response(Str(format_url(url.s)), outcome, now)
         ELSE except_clauses(Str(format_url(url.s)), outcome, now)

\* url: the value passed; outcome: what requests.get does; now: datetime.now()
check_website_status(url, outcome, now) ==
    IF url.t # "str" THEN except_clauses(url, AttributeError(url), now)
    ELSE IF outcome.kind = "response"
         THEN on_response(url, outcome, now)
         ELSE except_clauses(url, outcome, now)

---------------------------------------------------------------------------
(* The summary of check_bulk_domains *)

is_active(r) == r.status.num /\ 200 <= r.status.code /\ r.status.code < 300
is_inactive(r) == r.status.num /\ 400 <= r.status.code /\ r.status.code < 500
is_error(r) == ~r.status.num \/ r.status.code >= 500
is_redirect(r) == r.status.num /\ 300 <= r.status.code /\ r.status.code < 400

\* sum(1 for r in results if ...): the number of results that pass the test
count_active(rs) == Cardinality({i \in DOMAIN rs : is_active(rs[i])})
count_inactive(rs) == Cardinality({i \in DOMAIN rs : is_inactive(rs[i])})
count_errors(rs) == Cardinality({i \in DOMAIN rs : is_error(rs[i])})
count_redirects(rs) == Cardinality({i \in DOMAIN rs : is_redirect(rs[i])})

\* a wrong test of the errors count: 5xx only
is_error_5xx(r) == ~r.status.num \/ (500 <= r.status.code /\ r.status.code < 600)

\* a wrong test of the inactive count: the class starts above 400
is_inactive_above_400(r) ==
    r.status.num /\ 400 < r.status.code /\ r.status.code < 500

Summary(total, active, inactive, errors, redirects) ==
    [total |-> total, active |-> active, inactive |-> inactive,
     errors |-> errors, redirects |-> redirects]

\* the mutant: errors counts the server errors 500..599 only
summarize_5xx(rs) ==
    Summary(Len(rs), count_active(rs), count_inactive(rs),
            Cardinality({i \in DOMAIN rs : is_error_5xx(rs[i])}),
            count_redirects(rs))

\* the mutant: 400 is not counted as inactive
summarize_inactive_above_400(rs) ==
    Summary(Len(rs), count_active(rs),
            Cardinality({i \in DOMAIN rs : is_inactive_above_400(rs[i])}),
            count_errors(rs), count_redirects(rs))

summarize(rs) ==
    Summary(Len(rs), count_active(rs), count_inactive(rs),
            count_errors(rs), count_redirects(rs))

---------------------------------------------------------------------------
(* The endpoints.  A request is the JSON body request.get_json() returns.   *)
(* body is its shape: "falsy" (None, {}, 0, [], ""), "object" (a dict that  *)
(* holds something), "number" (a true number or boolean) or "container" (a  *)
(* string or list that holds something).  present is the value of           *)
(* "key in data" where that test can be made, value is what the key holds   *)
(* in an object and items are its elements when it is a list.               *)

Request(endpoint, body, present, value, items) ==
    [endpoint |-> endpoint, body |-> body, present |-> present,
     value |-> value, items |-> items]

\* "if not data or key not in data", then data[key]: the view answers that the
\* key is required, or raises TypeError, or goes on with the value of the key
body_check(r) ==
    IF r.body = "falsy" THEN "required"
    ELSE IF r.body = "number" THEN "raises"
    ELSE IF ~r.present THEN "required"
    ELSE IF r.body = "container" THEN "raises"
    ELSE "value"

JsonList == [t |-> "list", s |-> <<>>]

NoSummary == Summary(0, 0, 0, 0, 0)

\* jsonify(...) with its status code
ErrorResponse(http, error) ==
    [http |-> http, kind |-> "error", error |-> error,
     results |-> <<>>, summary |-> NoSummary]
ResultResponse(result) ==
    [http |-> 200, kind |-> "result", error |-> "",
     results |-> <<result>>, summary |-> NoSummary]
BulkResponse(rs, summary) ==
    [http |-> 200, kind |-> "bulk", error |-> "",
     results |-> rs, summary |-> summary]
\* an exception nothing catches leaves the view: the server answers 500
UnhandledException ==
    [http |-> 500, kind |-> "exception", error |-> "",
     results |-> <<>>, summary |-> NoSummary]
NoResponse ==
    [http |-> 0, kind |-> "none", error |-> "",
     results |-> <<>>, summary |-> NoSummary]

Handled(response, requests) == [resp |-> response, sent |-> requests]

\* the k-th call of requests.get meets the k-th outcome of the script, cyclically
Outcome(script, k) == script[((k - 1) % Len(script)) + 1]

check_single_domain(r, script) ==
    IF body_check(r) = "required"
    THEN Handled(ErrorResponse(400, "Domain is required"), <<>>)
    ELSE IF body_check(r) = "raises" THEN Handled(UnhandledException, <<>>)
    ELSE IF r.value.t # "str" THEN Handled(UnhandledException, <<>>)
    ELSE LET domain == strip(r.value.s)
         IN  IF domain = <<>>
             THEN Handled(ErrorResponse(400, "Domain cannot be empty"), <<>>)
             ELSE LET got == check_website_status(Str(domain), Outcome(script, 1), 1)
                  IN  IF got.raised
                      THEN Handled(UnhandledException, RequestsSent(Str(domain)))
                      ELSE Handled(ResultResponse(got.result),
                                   RequestsSent(Str(domain)))

\* the mutant: the newest result goes to the front
collect_front(rs, result) == <<result>> \o rs

\* results.append(result)
collect(rs, result) == Append(rs, result)

Looped(raised, rs, requests) ==
    [raised |-> raised, results |-> rs, requests |-> requests]

\* one turn of "for domain in domains", from what the turns before left
loop_body(rs, requests, domain, script) ==
    IF domain.t # "str" THEN Looped(TRUE, rs, requests)
    ELSE IF strip(domain.s) = <<>> THEN Looped(FALSE, rs, requests)
    ELSE LET url == Str(strip(domain.s))
             k == Len(requests) + 1
             got == check_website_status(url, Outcome(script, k), k)
         IN  IF got.raised
             THEN Looped(TRUE, rs, requests \o RequestsSent(url))
             ELSE Looped(FALSE, collect(rs, got.result),
                         requests \o RequestsSent(url))

\* the mutant: a list of exactly the maximum is refused too
too_many_at_limit(domains) == Len(domains) >= MAX_DOMAINS

\* len(domains) > 100
too_many(domains) == Len(domains) > MAX_DOMAINS

\* the checks before the loop: the error they answer with, the exception
\* that leaves the view, or no response yet
bulk_validation(r) ==
    IF body_check(r) = "required" THEN ErrorResponse(400, "Domains list is required")
    ELSE IF body_check(r) = "raises" THEN UnhandledException
    ELSE IF r.value.t # "list" THEN ErrorResponse(400, "Domains must be a list")
    ELSE IF Len(r.items) = 0 THEN ErrorResponse(400, "At least one domain is required")
    ELSE IF too_many(r.items) THEN ErrorResponse(400, "Maximum 100 domains allowed")
    ELSE NoResponse

---------------------------------------------------------------------------
(* Inputs *)

Plain == <<"a", ".", "b">>
Padded == <<" ", "c", ".", "d", "\r", "\n">>
Blank == <<"\t", "\n">>
Schemed == HTTP \o <<"a">>

\* the elements a caller can put in the list of a bulk request
Entries == {Str(Plain), Str(Padded), Str(Blank), JsonNumber}

\* the values a caller can put under "domain"
SingleValues == Entries \cup {Str(Schemed), Str(<<>>), JsonNull, JsonList}

\* what the network does to the requests of one run
NetOutcomes ==
    {Response(c, 1) : c \in CodeSamples}
        \cup {ReadTimeout, ConnectionError, TooManyRedirects}

Scripts == SeqsUpTo(NetOutcomes, MaxPat) \ {<<>>}

\* lists at and around the limit, of one entry repeated
LongLists ==
    {[i \in 1..n |-> e] : n \in {MAX_DOMAINS, MAX_DOMAINS + 1},
                          e \in {Str(Padded), Str(Blank)}}

Requests ==
    {Request(e, "falsy", FALSE, JsonNull, <<>>) : e \in {"single", "bulk"}}
        \cup {Request(e, "number", FALSE, JsonNull, <<>>) : e \in {"single", "bulk"}}
        \cup {Request(e, "container", p, JsonNull, <<>>) :
                e \in {"single", "bulk"}, p \in BOOLEAN}
        \cup {Request(e, "object", FALSE, JsonNull, <<>>) : e \in {"single", "bulk"}}
        \cup {Request("single", "object", TRUE, v, <<>>) : v \in SingleValues}
        \cup {Request("bulk", "object", TRUE, v, <<>>) : v \in {Str(Plain), JsonNumber}}
        \cup {Request("bulk", "object", TRUE, JsonList, l) :
                l \in SeqsUpTo(Entries, MaxList) \cup LongLists}

NoRequest == Request("none", "falsy", FALSE, JsonNull, <<>>)

\* strings with and without a scheme, and near misses of one
SchemeLike ==
    {<<>>, HTTP, HTTPS,
     <<"H", "T", "T", "P", ":", "/", "/">>,
     <<"h", "t", "t", "p", ":", "/">>,
     <<"h", "t", "t", "p", "s">>,
     <<" ">> \o HTTP}

UrlInputs ==
    {p \o q : p \in SchemeLike, q \in SeqsUpTo({"a", ".", "/", "s"}, MaxTail)}

ProbeInputs ==
    {Str(Plain), Str(Padded), Str(Schemed), Str(HTTPS \o Plain), JsonNumber, JsonNull}

Statuses ==
    {Num(c) : c \in {199, 200, 299, 300, 399, 400, 499, 500, 599, 600}}
        \cup {Sentinel("TIMEOUT"), Sentinel("CONNECTION_ERROR"), Sentinel("ERROR")}

ResultOf(status) == CheckResult(Str(Plain), status, Message("", <<>>), 1, None)

\* the statuses of the example of the specification
ExampleStatuses ==
    <<Num(200), Num(404), Num(301), Num(500), Sentinel("TIMEOUT")>>

ResultSeqs ==
    {[i \in DOMAIN q |-> ResultOf(q[i])] :
        q \in SeqsUpTo(Statuses, MaxRes) \cup {ExampleStatuses}}

---------------------------------------------------------------------------
(* The server answering one request *)

Idle ==
    /\ arg = <<>>
    /\ ret = <<>>
    /\ ret2 = <<>>

Init ==
    /\ pc = "ready"
    /\ req \in Requests
    /\ net \in Scripts
    /\ resp = NoResponse
    /\ sent = <<>>
    /\ idx = 0
    /\ results = <<>>
    /\ Idle

CheckSingle ==
    /\ pc = "ready"
    /\ req.endpoint = "single"
    /\ LET h == check_single_domain(req, net)
       IN  /\ resp' = h.resp
           /\ sent' = h.sent
    /\ pc' = "done"
    /\ UNCHANGED <<req, net, idx, results, arg, ret, ret2>>

\* check_bulk_domains up to the loop: the body is read and checked
CheckBulkBegin ==
    /\ pc = "ready"
    /\ req.endpoint = "bulk"
    /\ resp' = bulk_validation(req)
    /\ pc' = IF bulk_validation(req) = NoResponse THEN "loop" ELSE "done"
    /\ idx' = 1
    /\ results' = <<>>
    /\ UNCHANGED <<req, net, sent, arg, ret, ret2>>

\* one turn of the loop; an exception leaves the view
CheckBulkTurn ==
    /\ pc = "loop"
    /\ idx <= Len(req.items)
    /\ LET turn == loop_body(results, sent, req.items[idx], net)
       IN  /\ results' = turn.results
           /\ sent' = turn.requests
           /\ pc' = IF turn.raised THEN "done" ELSE "loop"
           /\ resp' = IF turn.raised THEN UnhandledException ELSE resp
    /\ idx' = idx + 1
    /\ UNCHANGED <<req, net, arg, ret, ret2>>

\* the list is exhausted: the summary and the response
CheckBulkEnd ==
    /\ pc = "loop"
    /\ idx > Len(req.items)
    /\ resp' = BulkResponse(results, summarize(results))
    /\ pc' = "done"
    /\ UNCHANGED <<req, net, sent, idx, results, arg, ret, ret2>>

Next == CheckSingle \/ CheckBulkBegin \/ CheckBulkTurn \/ CheckBulkEnd

Spec == Init /\ [][Next]_vars

---------------------------------------------------------------------------
(* check_website_status called on its own *)

NoServer ==
    /\ req = NoRequest
    /\ resp = NoResponse
    /\ idx = 0
    /\ results = <<>>

InitProbe ==
    /\ pc = "ready"
    /\ arg \in ProbeInputs
    /\ net \in {<<o>> : o \in ProbeOutcomes}
    /\ ret = <<>>
    /\ ret2 = <<>>
    /\ sent = <<>>
    /\ NoServer

Probe ==
    /\ pc = "ready"
    /\ ret' = check_website_status(arg, Outcome(net, 1), 1)
    /\ sent' = RequestsSent(arg)
    /\ pc' = "done"
    /\ UNCHANGED <<req, net, resp, idx, results, arg, ret2>>

NextProbe == Probe

SpecProbe == InitProbe /\ [][NextProbe]_vars

---------------------------------------------------------------------------
(* format_url, applied once and then again to its own result *)

InitUrl ==
    /\ pc = "ready"
    /\ arg \in UrlInputs
    /\ ret = <<>>
    /\ ret2 = <<>>
    /\ net = <<>>
    /\ sent = <<>>
    /\ NoServer

Normalize ==
    /\ pc = "ready"
    /\ ret' = format_url(arg)
    /\ pc' = "once"
    /\ UNCHANGED <<req, net, resp, sent, idx, results, arg, ret2>>

NormalizeAgain ==
    /\ pc = "once"
    /\ ret2' = format_url(ret)
    /\ pc' = "twice"
    /\ UNCHANGED <<req, net, resp, sent, idx, results, arg, ret>>

NextUrl == Normalize \/ NormalizeAgain

SpecUrl == InitUrl /\ [][NextUrl]_vars

---------------------------------------------------------------------------
(* get_status_message on every code of a range *)

InitMsg ==
    /\ pc = "ready"
    /\ arg \in 0..MaxCode
    /\ ret = <<>>
    /\ ret2 = <<>>
    /\ net = <<>>
    /\ sent = <<>>
    /\ NoServer

Classify ==
    /\ pc = "ready"
    /\ ret' = get_status_message(arg)
    /\ pc' = "done"
    /\ UNCHANGED <<req, net, resp, sent, idx, results, arg, ret2>>

NextMsg == Classify

SpecMsg == InitMsg /\ [][NextMsg]_vars

---------------------------------------------------------------------------
(* The summary on sequences of results *)

InitSummary ==
    /\ pc = "ready"
    /\ arg \in ResultSeqs
    /\ ret = <<>>
    /\ ret2 = <<>>
    /\ net = <<>>
    /\ sent = <<>>
    /\ NoServer

Summarize ==
    /\ pc = "ready"
    /\ ret' = summarize(arg)
    /\ pc' = "done"
    /\ UNCHANGED <<req, net, resp, sent, idx, results, arg, ret2>>

NextSummary == Summarize

SpecSummary == InitSummary /\ [][NextSummary]_vars

---------------------------------------------------------------------------
(* Vocabulary of the properties *)

AllWhitespace(s) == \A i \in DOMAIN s : s[i] \in Whitespace

\* d is s without the whitespace at its two ends
IsTrimOf(d, s) ==
    \E a, b \in 0..Len(s) :
        /\ a + b <= Len(s)
        /\ d = SubSeq(s, a + 1, Len(s) - b)
        /\ AllWhitespace(SubSeq(s, 1, a))
        /\ AllWhitespace(SubSeq(s, Len(s) - b + 1, Len(s)))
        /\ d # <<>> => d[1] \notin Whitespace /\ d[Len(d)] \notin Whitespace

\* the positions of the list that hold something other than a blank string
NonBlank(items) ==
    {j \in DOMAIN items : ~(items[j].t = "str" /\ AllWhitespace(items[j].s))}

\* the place among the non-blank entries of the non-blank entry at position j
Rank(nb, j) == Cardinality({k \in nb : k <= j})

StartsWithScheme(s) ==
    \/ Len(s) >= 7 /\ SubSeq(s, 1, 7) = <<"h", "t", "t", "p", ":", "/", "/">>
    \/ Len(s) >= 8 /\ SubSeq(s, 1, 8) = <<"h", "t", "t", "p", "s", ":", "/", "/">>

\* the status the specification gives to an outcome of the request
StatusFor(o) ==
    IF o.kind = "response" THEN Num(o.code)
    ELSE IF \E i \in DOMAIN o.classes : o.classes[i] = "Timeout"
    THEN Sentinel("TIMEOUT")
    ELSE IF \E i \in DOMAIN o.classes : o.classes[i] = "ConnectionError"
    THEN Sentinel("CONNECTION_ERROR")
    ELSE Sentinel("ERROR")

BulkListValidated ==
    /\ pc = "done"
    /\ req.endpoint = "bulk"
    /\ req.body = "object"
    /\ req.present
    /\ req.value.t = "list"

---------------------------------------------------------------------------
(* C1 *)

\* C1: check_website_status never lets an exception out.  Whatever the input
\* and whatever requests.get does, it returns a record: the numeric code on a
\* response, TIMEOUT on a timeout, CONNECTION_ERROR on a connection failure
\* that is no timeout, ERROR on any other failure, the failure of format_url
\* on a value that is no string included.
C1_NeverRaises ==
    pc = "done" =>
        /\ ~ret.raised
        /\ arg.t = "str" => ret.result.status = StatusFor(Outcome(net, 1))
        /\ arg.t # "str" => ret.result.status = Sentinel("ERROR")

C1_Witness ==
    /\ pc = "done"
    /\ arg.t = "str"
    /\ Outcome(net, 1) = TooManyRedirects
    /\ ~ret.raised
    /\ ret.result.status = Sentinel("ERROR")

---------------------------------------------------------------------------
(* C2 *)

\* C2: a bulk request whose list passed validation and whose probing has
\* started runs to the end of the list and answers 200 with the results and
\* the summary, one result for each non-blank entry.
C2_BatchNeverAborted ==
    (BulkListValidated /\ Len(req.items) \in 1..100 /\ sent # <<>>) =>
        /\ resp.http = 200
        /\ resp.kind = "bulk"
        /\ Len(resp.results) = Cardinality(NonBlank(req.items))

---------------------------------------------------------------------------
(* C3 *)

\* C3: in every record check_website_status returns, response_time is not
\* null exactly when status is numeric, and a numeric status comes from a
\* response, whose elapsed time is the response_time.
C3_ResponseTimeIffNumeric ==
    (pc = "done" /\ ~ret.raised) =>
        LET r == ret.result
            o == Outcome(net, 1)
        IN  /\ ~r.response_time.null <=> r.status.num
            /\ r.status.num =>
                   /\ arg.t = "str"
                   /\ o.kind = "response"
                   /\ r.status.code = o.code
                   /\ r.response_time.secs = o.elapsed
            /\ r.status \in {Sentinel("TIMEOUT"), Sentinel("CONNECTION_ERROR"),
                             Sentinel("ERROR")} => r.response_time.null

C3_Witness ==
    /\ pc = "done"
    /\ Outcome(net, 1) = Response(200, 0)
    /\ arg.t = "str"
    /\ ~ret.result.response_time.null
    /\ ret.result.response_time.secs = 0

---------------------------------------------------------------------------
(* C4 *)

NumericIn(rs, lo, hi) ==
    {i \in DOMAIN rs :
        rs[i].status.num /\ lo <= rs[i].status.code /\ rs[i].status.code < hi}

StatusesOf(rs) == [i \in DOMAIN rs |-> rs[i].status]

\* C4: the summary is a function of the results alone: total is their number,
\* active, redirects and inactive count the numeric statuses of [200,300),
\* [300,400) and [400,500), errors counts the non-numeric ones and those
\* >= 500; the statuses 200, 404, 301, 500, TIMEOUT give 5, 1, 1, 1 and 2.
C4_SummaryCounts ==
    pc = "done" =>
        /\ ret.total = Len(arg)
        /\ ret.active = Cardinality(NumericIn(arg, 200, 300))
        /\ ret.redirects = Cardinality(NumericIn(arg, 300, 400))
        /\ ret.inactive = Cardinality(NumericIn(arg, 400, 500))
        /\ ret.errors =
               Cardinality({i \in DOMAIN arg :
                               ~arg[i].status.num \/ arg[i].status.code >= 500})
        /\ StatusesOf(arg) = ExampleStatuses =>
               ret = [total |-> 5, active |-> 1, inactive |-> 1,
                      redirects |-> 1, errors |-> 2]

C4_Witness ==
    /\ pc = "done"
    /\ StatusesOf(arg) = ExampleStatuses
    /\ ret.total = 5
    /\ ret.errors = 2

---------------------------------------------------------------------------
(* C5 *)

\* C5: the results of a bulk response are the probes of the non-blank entries
\* of the list, in the order of the list: as many results as non-blank
\* entries, the i-th result made from the i-th non-blank entry and from the
\* i-th request sent, none for a blank entry.
C5_ResultsFollowInput ==
    (pc = "done" /\ resp.kind = "bulk") =>
        LET nb == NonBlank(req.items)
        IN  /\ Len(resp.results) = Cardinality(nb)
            /\ Len(sent) = Len(resp.results)
            /\ \A j \in nb :
                   LET i == Rank(nb, j)
                       e == req.items[j]
                       r == resp.results[i]
                   IN  /\ r.domain.t = "str"
                       /\ IsTrimOf(r.domain.s, e.s)
                       /\ r.status = StatusFor(Outcome(net, i))
                       /\ r.timestamp = i

C5_Witness ==
    /\ pc = "done"
    /\ resp.kind = "bulk"
    /\ Len(req.items) = 3
    /\ req.items[2] = Str(Blank)
    /\ Len(resp.results) = 2
    /\ resp.results[1].status # resp.results[2].status
    /\ resp.results[1].domain # resp.results[2].domain

---------------------------------------------------------------------------
(* C6 *)

\* C6: a list of no entry and a list of more than 100 entries are refused
\* with an error and not one request is sent; a list of exactly 100 entries
\* is not refused, and every one of its non-blank entries is probed.
C6_BatchSizeLimits ==
    BulkListValidated =>
        /\ (Len(req.items) = 0 \/ Len(req.items) > 100) =>
               /\ resp.kind = "error"
               /\ resp.http = 400
               /\ sent = <<>>
        /\ Len(req.items) \in 1..100 => resp.kind # "error"
        /\ (/\ Len(req.items) = 100
            /\ \A j \in DOMAIN req.items : req.items[j].t = "str") =>
               /\ resp.kind = "bulk"
               /\ Len(sent) = Cardinality(NonBlank(req.items))

C6_Witness ==
    /\ BulkListValidated
    /\ Len(req.items) = 100
    /\ resp.kind = "bulk"
    /\ Len(sent) = 100
    /\ Len(resp.results) = 100

---------------------------------------------------------------------------
(* C7 *)

TableCodes ==
    {200, 201, 204, 301, 302, 304, 400, 401, 403, 404, 405, 408, 429, 500, 502,
     503, 504}

\* C7: a code of the table gets the message of the table (408 gets Request
\* Timeout and 404 gets 404 Not Found, not Client Error); any other code gets
\* the message of its range: Success in [200,300), Redirect in [300,400),
\* Client Error in [400,500), Server Error in [500,600), Unknown Status
\* outside them.
C7_TableBeforeRange ==
    pc = "done" =>
        /\ DOMAIN messages = TableCodes
        /\ arg \in TableCodes => ret = messages[arg]
        /\ arg = 408 => ret = "[timer] Request Timeout"
        /\ arg = 404 => ret = "[cross] 404 Not Found"
        /\ arg = 200 => ret = "[check] Site is Live"
        /\ arg \notin TableCodes =>
               /\ ret = "[check] Success" <=> (200 <= arg /\ arg < 300)
               /\ ret = "[arrow] Redirect" <=> (300 <= arg /\ arg < 400)
               /\ ret = "[cross] Client Error" <=> (400 <= arg /\ arg < 500)
               /\ ret = "[warning] Server Error" <=> (500 <= arg /\ arg < 600)
               /\ ret = "[question] Unknown Status" <=> (arg < 200 \/ arg >= 600)

C7_Witness ==
    /\ pc = "done"
    /\ arg = 408
    /\ ret = "[timer] Request Timeout"

---------------------------------------------------------------------------
(* C8 *)

\* C8: format_url returns a string that starts with http:// or https://
\* unchanged and any other string with https:// put before it; its result
\* starts with one of the two, and format_url of the result is the result.
C8_FormatUrl ==
    /\ pc \in {"once", "twice"} =>
           /\ StartsWithScheme(arg) => ret = arg
           /\ ~StartsWithScheme(arg) =>
                  ret = <<"h", "t", "t", "p", "s", ":", "/", "/">> \o arg
           /\ StartsWithScheme(ret)
    /\ pc = "twice" => ret2 = ret

C8_Witness ==
    /\ pc = "twice"
    /\ arg = <<"H", "T", "T", "P", ":", "/", "/", "a">>
    /\ ret = HTTPS \o arg
    /\ ret2 = ret

---------------------------------------------------------------------------
(* C9 *)

\* C9 as written: the domain of every result returned by the single check and
\* by the bulk check is the string the caller supplied.
C9_DomainIsInputAsSupplied ==
    /\ (pc = "done" /\ resp.kind = "result") => resp.results[1].domain = req.value
    /\ (pc = "done" /\ resp.kind = "bulk") =>
           LET nb == NonBlank(req.items)
           IN  \A j \in nb : resp.results[Rank(nb, j)].domain = req.items[j]

\* C9, amended: the domain of every result returned by the single check and by
\* the bulk check is the string the caller supplied without the whitespace at
\* its two ends, and nothing else is done to it: no scheme is added, on a
\* response and on every failure.
C9_DomainIsTrimmedInput ==
    /\ (pc = "done" /\ resp.kind = "result") =>
           /\ resp.results[1].domain.t = "str"
           /\ IsTrimOf(resp.results[1].domain.s, req.value.s)
    /\ (pc = "done" /\ resp.kind = "bulk") =>
           LET nb == NonBlank(req.items)
           IN  /\ Len(resp.results) = Cardinality(nb)
               /\ \A j \in nb :
                      /\ resp.results[Rank(nb, j)].domain.t = "str"
                      /\ IsTrimOf(resp.results[Rank(nb, j)].domain.s, req.items[j].s)

C9_Witness ==
    /\ pc = "done"
    /\ resp.kind = "result"
    /\ req.value = Str(Padded)
    /\ resp.results[1].domain = Str(<<"c", ".", "d">>)
    /\ sent = <<HTTPS \o <<"c", ".", "d">>>>
    /\ ~resp.results[1].status.num

---------------------------------------------------------------------------
(* C10 *)

\* C10: in the summary of a bulk response no result is counted twice: the
\* four classes add up to total less the results of numeric status below 200,
\* so to at most total, and to total exactly when there is no such result.
C10_ClassesDisjoint ==
    (pc = "done" /\ resp.kind = "bulk") =>
        LET s == resp.summary
            below == {i \in DOMAIN resp.results :
                         resp.results[i].status.num /\ resp.results[i].status.code < 200}
            sum == s.active + s.redirects + s.inactive + s.errors
        IN  /\ s.total = Len(resp.results)
            /\ sum <= s.total
            /\ sum = s.total - Cardinality(below)
            /\ sum = s.total <=> below = {}

C10_Witness ==
    /\ pc = "done"
    /\ resp.kind = "bulk"
    /\ resp.summary.total = 2
    /\ resp.summary.active = 1
    /\ resp.summary.active + resp.summary.redirects + resp.summary.inactive
           + resp.summary.errors = 1
    /\ \E i \in DOMAIN resp.results : resp.results[i].status = Num(100)

====
